---- MODULE Spec2Model ----
(***************************************************************************)
(* ElasticDataloader.load_dataset of load_csv_or_json_to_elasticsearch.py  *)
(* as a state machine: index preparation, the record generator, the        *)
(* chunked bulk helper driven by the for loop, the loop body, the refresh  *)
(* and the return or the exception handlers.                               *)
(***************************************************************************)
EXTENDS Integers, Sequences, FiniteSets, TLC

VARIABLES
    es_dataset,       \* ElasticDataloaderSet: input_file (its lines), ext, names, flags
    chunk_size,       \* load_dataset's chunk_size argument
    raise_on_error,   \* streaming_bulk's raise_on_error (the call leaves the default)
    indexExists,      \* destination: does es_index_name exist
    pc,               \* position of control in load_dataset
    cnt,              \* loop variable of line 35 (UNBOUND before the first iteration)
    bulks_processed,  \* line 31
    not_ok,           \* line 32
    fileOpen,         \* the generator's "with open(...)" holds the handle
    genState,         \* generator: "new", "suspended" (at a yield), "finished"
    pos,              \* number of lines the generator has read
    bulk_actions,     \* the helper's chunk being filled
    resp,             \* responses of the chunk being iterated
    ri,               \* index of the next response of resp
    errors,           \* failures the helper collects to raise them together
    calls,            \* history: calls made on self.client, in order
    bulk_chunk,       \* the chunk the helper is sending
    prepared,         \* history: documents the generator yielded, in order
    nok_log,          \* history: the NOK lists given to self._logger.error (line 44)
    ret,              \* value returned by load_dataset
    exc               \* exception leaving load_dataset: [type, from]

vars == <<es_dataset, chunk_size, raise_on_error, indexExists, pc, cnt,
          bulks_processed, not_ok, fileOpen, genState, pos, bulk_actions,
          resp, ri, errors, calls, bulk_chunk, prepared, nok_log, ret, exc>>

-----------------------------------------------------------------------------
(* Bounds of the model *)

\* longest input file whose lines are drawn from every kind of line
MaxRecords == 3
\* longest input file of plain well-formed lines
MaxDocs == 13

(* Program constants *)

\* not_ok[-10:]
LogLimit == 10
\* ignore=400
IgnoredStatus == 400
\* default of es_index_start_from
DefaultStartFrom == 1
\* cnt has no value before the first iteration of the for loop
UNBOUND == -1

-----------------------------------------------------------------------------
(* Values: Python values of the kinds the records hold, in one shape *)

PyStr(s)  == [t |-> "str",  s |-> s,  n |-> 0, l |-> <<>>]
PyInt(n)  == [t |-> "int",  s |-> "", n |-> n, l |-> <<>>]
PyList(l) == [t |-> "list", s |-> "", n |-> 0, l |-> l]
PyNone    == [t |-> "none", s |-> "", n |-> 0, l |-> <<>>]

\* the key csv.DictReader files surplus cells under (restkey=None)
RestKey == "None"

HasKey(row, k) == k \in DOMAIN row

\* dict.get(key, default)
Get(row, k, default) == IF HasKey(row, k) THEN row[k] ELSE default

\* row[key] = value
SetItem(row, k, v) ==
    [x \in (DOMAIN row) \cup {k} |-> IF x = k THEN v ELSE row[x]]

-----------------------------------------------------------------------------
(* The input file and its parsing *)

CsvHeader == "key,name"
CsvRows   == {"a,x", "a", "a,x,y"}
JsonLines == {"{key:a,name:x}", "{name:x}", "{_id:b,name:x}", "{bad"}
PlainLine == "{name:x}"

\* csv.reader: one line to its cells
csv_reader(line) ==
    CASE line = "key,name" -> <<"key", "name">>
      [] line = "a,x"      -> <<"a", "x">>
      [] line = "a"        -> <<"a">>
      [] line = "a,x,y"    -> <<"a", "x", "y">>

\* csv.DictReader.__next__: the cells zipped with the field names; surplus
\* cells are filed under restkey, missing ones are restval (None).  A row
\* of another length than the header is not an error.
DictReader(fieldnames, row) ==
    LET lf == Len(fieldnames)
        lr == Len(row)
        idx(k) == CHOOSE i \in 1..lf : fieldnames[i] = k
        names == {fieldnames[i] : i \in 1..lf}
        keys == IF lf < lr THEN names \cup {RestKey} ELSE names
    IN  [k \in keys |->
            IF k = RestKey /\ lf < lr
            THEN PyList(SubSeq(row, lf + 1, lr))
            ELSE IF idx(k) <= lr THEN PyStr(row[idx(k)]) ELSE PyNone]

\* json.loads raises JSONDecodeError on a line that is not JSON
json_valid(line) == line # "{bad"

\* json.loads: one line to its object
json_loads(line) ==
    CASE line = "{key:a,name:x}" -> [key |-> PyStr("a"), name |-> PyStr("x")]
      [] line = "{name:x}"       -> [name |-> PyStr("x")]
      [] line = "{_id:b,name:x}" -> [_id |-> PyStr("b"), name |-> PyStr("x")]

\* the lines that are records: all of an ndjson file, a csv file less its header
DataLines(ds) ==
    IF ds.ext = "csv"
    THEN IF Len(ds.input_file) = 0 THEN <<>> ELSE Tail(ds.input_file)
    ELSE ds.input_file

\* the record of the i-th data line (1-based), as the generators build it
RowOf(ds, i) ==
    IF ds.ext = "csv"
    THEN DictReader(csv_reader(Head(ds.input_file)), csv_reader(DataLines(ds)[i]))
    ELSE json_loads(DataLines(ds)[i])

\* mutant: a csv row of another length than the header raises csv.Error
LineRaises_strict(ds, i) ==
    IF ds.ext = "csv"
    THEN Len(csv_reader(DataLines(ds)[i])) # Len(csv_reader(Head(ds.input_file)))
    ELSE ~json_valid(DataLines(ds)[i])

\* does reading the i-th data line raise (csv.Error, json.JSONDecodeError)
LineRaises(ds, i) ==
    IF ds.ext = "csv" THEN FALSE ELSE ~json_valid(DataLines(ds)[i])

\* mutant: the generated identity counts from the default offset
_prepare_document_for_bulk_default(ds, row, c) ==
    SetItem(SetItem(row, "_id",
                    Get(row, ds.es_id_field, PyInt(c + DefaultStartFrom))),
            "_index", PyStr(ds.es_index_name))

_prepare_document_for_bulk(ds, row, c) ==
    SetItem(SetItem(row, "_id",
                    Get(row, ds.es_id_field, PyInt(c + ds.es_index_start_from))),
            "_index", PyStr(ds.es_index_name))

-----------------------------------------------------------------------------
(* Initial states: the dataset, the arguments, the destination *)

SeqsUpTo(S, k) == UNION {[1..n -> S] : n \in 0..k}

Repeat(x, n) == [i \in 1..n |-> x]

ElasticDataloaderSet(lines, ext, idf, start, del) ==
    [input_file |-> lines, ext |-> ext, es_index_name |-> "idx",
     es_id_field |-> idf, es_index_start_from |-> start,
     delete_index_first |-> del]

MixedFiles ==
    { <<"csv", <<CsvHeader>> \o rows>> : rows \in SeqsUpTo(CsvRows, MaxRecords) }
    \cup { <<"json", ls>> : ls \in SeqsUpTo(JsonLines, MaxRecords) }

PlainFiles ==
    { <<"json", Repeat(PlainLine, n)>> : n \in (MaxDocs - 1)..MaxDocs }

\* the largest chunk_size tried: a plain file fills one such chunk and more
BigChunk == MaxDocs - 1

ChunkSizes == {1, 2, BigChunk}

MixedDatasets ==
    { ElasticDataloaderSet(f[2], f[1], idf, start, del) :
        f \in MixedFiles, idf \in {"_id", "key"},
        start \in {DefaultStartFrom, 5}, del \in BOOLEAN }

PlainDatasets ==
    { ElasticDataloaderSet(f[2], f[1], "_id", DefaultStartFrom, FALSE) :
        f \in PlainFiles }

NoException == [type |-> "none", from |-> "none"]

InitRun(roe) ==
    /\ \/ es_dataset \in MixedDatasets /\ chunk_size \in ChunkSizes
       \/ es_dataset \in PlainDatasets /\ chunk_size = BigChunk
    /\ raise_on_error = roe
    /\ indexExists \in BOOLEAN
    /\ pc = "prepare"
    /\ cnt = UNBOUND
    /\ bulks_processed = 0
    /\ not_ok = <<>>
    /\ fileOpen = FALSE
    /\ genState = "new"
    /\ pos = 0
    /\ bulk_actions = <<>>
    /\ resp = <<>>
    /\ ri = 1
    /\ errors = <<>>
    /\ calls = <<>>
    /\ bulk_chunk = <<>>
    /\ prepared = <<>>
    /\ nok_log = <<>>
    /\ ret = UNBOUND
    /\ exc = NoException

\* streaming_bulk(self.client, generator, chunk_size): raise_on_error=True
Init == InitRun(TRUE)

-----------------------------------------------------------------------------
(* Exceptions: the except clauses of load_dataset (lines 50-65) *)

Handled(e) ==
    e \in {"ImproperlyConfigured",
           "TransportError", "NotFoundError", "RequestError", "BulkIndexError",
           "csv.Error", "JSONDecodeError",
           "IOError", "ValueError"}

\* what leaves load_dataset when e is raised inside the try block
Leaves(e) ==
    IF Handled(e)
    THEN [type |-> "ElasticDataloaderException", from |-> e]
    ELSE [type |-> e, from |-> e]

\* one call on self.client: the operation, the documents sent, the
\* per-document acknowledgements, the error answered ("none" if none)
Call(op, docs, oks, err) == [op |-> op, docs |-> docs, oks |-> oks, err |-> err]

-----------------------------------------------------------------------------
(* _prepare_index *)

\* except elasticsearch.NotFoundError (line 95)
DeleteCaught(e) == e = "NotFoundError"

\* what indices.delete can answer
DeleteOutcomes == IF indexExists THEN {"none", "TransportError"}
                                 ELSE {"NotFoundError", "TransportError"}

\* lines 89-96
_prepare_index_delete ==
    /\ pc = "prepare"
    /\ IF es_dataset.delete_index_first
       THEN \E e \in DeleteOutcomes :
              /\ calls' = Append(calls, Call("delete", <<>>, <<>>, e))
              /\ indexExists' = IF e = "none" THEN FALSE ELSE indexExists
              /\ IF e = "none" \/ DeleteCaught(e)
                 THEN pc' = "create" /\ exc' = exc
                 ELSE pc' = "raised" /\ exc' = Leaves(e)
       ELSE pc' = "create" /\ UNCHANGED <<calls, indexExists, exc>>
    /\ UNCHANGED <<es_dataset, chunk_size, raise_on_error, cnt, bulks_processed,
                   not_ok, fileOpen, genState, pos, bulk_actions, resp, ri,
                   errors, bulk_chunk, prepared, nok_log, ret>>

\* mutant: no status is ignored
Ignored_none(status) == FALSE

\* ignore=400 (line 99): a response of this status is not raised
Ignored(status) == status = IgnoredStatus

\* what indices.create can answer: created, already exists, unavailable
CreateStatuses == IF indexExists THEN {400, 503} ELSE {200, 503}

\* lines 97-99
_prepare_index_create ==
    /\ pc = "create"
    /\ \E status \in CreateStatuses :
          LET raises == status >= 300 /\ ~Ignored(status)
              e == CASE status = 200 -> "none"
                     [] status = 400 -> "RequestError"
                     [] OTHER        -> "TransportError"
          IN  /\ calls' = Append(calls, Call("create", <<>>, <<>>, e))
              /\ indexExists' = IF status = 200 THEN TRUE ELSE indexExists
              /\ IF raises
                 THEN pc' = "raised" /\ exc' = Leaves(e)
                 ELSE pc' = "pull" /\ exc' = exc
    /\ UNCHANGED <<es_dataset, chunk_size, raise_on_error, cnt, bulks_processed,
                   not_ok, fileOpen, genState, pos, bulk_actions, resp, ri,
                   errors, bulk_chunk, prepared, nok_log, ret>>

-----------------------------------------------------------------------------
(* The generator and the helper's chunking *)

\* mutant: a chunk is sent one document late
ChunkFull_late(buf) == Len(buf) = chunk_size + 1

\* the helper sends the chunk it holds once it has chunk_size documents
ChunkFull(buf) == Len(buf) = chunk_size

\* the exception a malformed line raises
ContentError(ds) == IF ds.ext = "csv" THEN "csv.Error" ELSE "JSONDecodeError"

\* streaming_bulk asks the generator (_csv_generator, _ndjson_generator)
\* for its next document: the generator reads one line and yields the
\* prepared document, raises on a malformed line, or ends at the end of the
\* file, leaving its with block.  A full chunk is sent when the document
\* after it arrives, the last chunk when the generator ends.
NextDocument ==
    /\ pc = "pull"
    /\ IF pos < Len(DataLines(es_dataset))
       THEN IF LineRaises(es_dataset, pos + 1)
            THEN /\ fileOpen' = FALSE
                 /\ genState' = "finished"
                 /\ pc' = "raised"
                 /\ exc' = Leaves(ContentError(es_dataset))
                 /\ UNCHANGED <<pos, prepared, bulk_actions, bulk_chunk>>
            ELSE LET doc == _prepare_document_for_bulk(
                                es_dataset, RowOf(es_dataset, pos + 1), pos)
                 IN  /\ fileOpen' = TRUE
                     /\ genState' = "suspended"
                     /\ pos' = pos + 1
                     /\ prepared' = Append(prepared, doc)
                     /\ exc' = exc
                     /\ IF ChunkFull(bulk_actions)
                        THEN /\ bulk_chunk' = bulk_actions
                             /\ bulk_actions' = <<doc>>
                             /\ pc' = "bulk"
                        ELSE /\ bulk_actions' = Append(bulk_actions, doc)
                             /\ pc' = "pull"
                             /\ UNCHANGED bulk_chunk
       ELSE /\ fileOpen' = FALSE
            /\ genState' = "finished"
            /\ UNCHANGED <<pos, prepared, exc>>
            /\ IF bulk_actions # <<>>
               THEN /\ bulk_chunk' = bulk_actions
                    /\ bulk_actions' = <<>>
                    /\ pc' = "bulk"
               ELSE /\ pc' = "refresh"
                    /\ UNCHANGED <<bulk_actions, bulk_chunk>>
    /\ UNCHANGED <<es_dataset, chunk_size, raise_on_error, indexExists, cnt,
                   bulks_processed, not_ok, resp, ri, errors, calls, nok_log, ret>>

\* client.bulk on the chunk: a transport failure raises; otherwise the
\* destination answers for each document, accepting or rejecting it
Bulk ==
    /\ pc = "bulk"
    /\ \/ /\ calls' = Append(calls, Call("bulk", bulk_chunk, <<>>, "TransportError"))
          /\ pc' = "raised"
          /\ exc' = Leaves("TransportError")
          /\ UNCHANGED <<resp, ri, errors>>
       \/ \E oks \in [1..Len(bulk_chunk) -> BOOLEAN] :
             /\ calls' = Append(calls, Call("bulk", bulk_chunk, oks, "none"))
             /\ resp' = [i \in 1..Len(bulk_chunk) |->
                            [ok |-> oks[i], result |-> bulk_chunk[i]["_id"]]]
             /\ ri' = 1
             /\ errors' = <<>>
             /\ pc' = "respond"
             /\ exc' = exc
    /\ UNCHANGED <<es_dataset, chunk_size, raise_on_error, indexExists, cnt,
                   bulks_processed, not_ok, fileOpen, genState, pos,
                   bulk_actions, bulk_chunk, prepared, nok_log, ret>>

-----------------------------------------------------------------------------
(* The loop of load_dataset *)

\* enumerate: the next value of cnt
NextCnt(c) == IF c = UNBOUND THEN 0 ELSE c + 1

\* not_ok[-10:]
LastN(s, n) == IF Len(s) <= n THEN s ELSE SubSeq(s, Len(s) - n + 1, Len(s))

\* mutant: the whole buffer is logged
NokLogSlice_all(nk) == nk

NokLogSlice(nk) == LastN(nk, LogLimit)

\* cnt % chunk_size == 0 (line 39)
AtCheckpoint(c) == c % chunk_size = 0

\* lines 35-46: one iteration of the for loop on the response (ok, result)
LoopBody(ok, result) ==
    LET c  == NextCnt(cnt)
        nk == IF ~ok THEN Append(not_ok, result) ELSE not_ok
    IN  /\ cnt' = c
        /\ IF AtCheckpoint(c)
           THEN /\ bulks_processed' = bulks_processed + 1
                /\ IF Len(nk) > 0
                   THEN /\ nok_log' = Append(nok_log,
                                [batch |-> bulks_processed + 1,
                                 noks |-> NokLogSlice(nk)])
                        /\ not_ok' = <<>>
                   ELSE /\ not_ok' = nk
                        /\ UNCHANGED nok_log
           ELSE /\ not_ok' = nk
                /\ UNCHANGED <<bulks_processed, nok_log>>

\* the helper goes through the responses of the chunk: with raise_on_error
\* it keeps a rejected document to raise it at the end of the chunk and
\* yields nothing after it; what it yields runs the loop body
ProcessBulkItem ==
    /\ pc = "respond"
    /\ ri <= Len(resp)
    /\ LET item == resp[ri]
           errs == IF ~item.ok /\ raise_on_error
                   THEN Append(errors, item.result) ELSE errors
       IN  /\ errors' = errs
           /\ IF item.ok \/ errs = <<>>
              THEN LoopBody(item.ok, item.result)
              ELSE UNCHANGED <<cnt, bulks_processed, not_ok, nok_log>>
    /\ ri' = ri + 1
    /\ UNCHANGED <<es_dataset, chunk_size, raise_on_error, indexExists, pc,
                   fileOpen, genState, pos, bulk_actions, resp, calls,
                   bulk_chunk, prepared, ret, exc>>

\* mutant: the loop is left after the first chunk
AfterChunk_refresh(gs) == "refresh"

\* where control goes once a chunk is through
AfterChunk(gs) == IF gs = "finished" THEN "refresh" ELSE "pull"

\* the end of the chunk: the failures kept are raised as one BulkIndexError;
\* otherwise the helper goes for the next chunk, or ends with the generator
ProcessBulkChunkEnd ==
    /\ pc = "respond"
    /\ ri > Len(resp)
    /\ IF errors # <<>>
       THEN pc' = "raised" /\ exc' = Leaves("BulkIndexError")
       ELSE pc' = AfterChunk(genState) /\ exc' = exc
    /\ UNCHANGED <<es_dataset, chunk_size, raise_on_error, indexExists, cnt,
                   bulks_processed, not_ok, fileOpen, genState, pos,
                   bulk_actions, resp, ri, errors, calls, bulk_chunk,
                   prepared, nok_log, ret>>

\* lines 47-49 and 66-67: the refresh, then return cnt+1
RefreshAndReturn ==
    /\ pc = "refresh"
    /\ \E e \in {"none", "TransportError"} :
          /\ calls' = Append(calls, Call("refresh", <<>>, <<>>, e))
          /\ IF e # "none"
             THEN pc' = "raised" /\ exc' = Leaves(e) /\ ret' = ret
             ELSE IF cnt = UNBOUND
                  THEN pc' = "raised" /\ exc' = Leaves("UnboundLocalError")
                       /\ ret' = ret
                  ELSE pc' = "returned" /\ ret' = cnt + 1 /\ exc' = exc
    /\ UNCHANGED <<es_dataset, chunk_size, raise_on_error, indexExists, cnt,
                   bulks_processed, not_ok, fileOpen, genState, pos,
                   bulk_actions, resp, ri, errors, bulk_chunk, prepared, nok_log>>

\* a generator left suspended at its yield is closed when it is collected,
\* after the exception has left load_dataset: only then does its with block
\* close the file
GeneratorFinalize ==
    /\ pc = "raised"
    /\ genState = "suspended"
    /\ genState' = "finished"
    /\ fileOpen' = FALSE
    /\ UNCHANGED <<es_dataset, chunk_size, raise_on_error, indexExists, pc, cnt,
                   bulks_processed, not_ok, pos, bulk_actions, resp, ri, errors,
                   calls, bulk_chunk, prepared, nok_log, ret, exc>>

Next ==
    \/ _prepare_index_delete
    \/ _prepare_index_create
    \/ NextDocument
    \/ Bulk
    \/ ProcessBulkItem
    \/ ProcessBulkChunkEnd
    \/ RefreshAndReturn
    \/ GeneratorFinalize

Spec == Init /\ [][Next]_vars

\* the same program over a helper that yields a rejected document's
\* (False, result) instead of raising: what lines 36-38 are written for
InitYield == InitRun(FALSE)

SpecYield == InitYield /\ [][Next]_vars

-----------------------------------------------------------------------------
(* Vocabulary of the properties *)

\* N: the number of records of the input file
N == Len(DataLines(es_dataset))

AllLinesValid == \A i \in 1..N : ~LineRaises(es_dataset, i)

\* control has left load_dataset
Done == pc \in {"returned", "raised"}

IsBulk(c) == c.op = "bulk"
IsRefresh(c) == c.op = "refresh"

\* the bulk submissions made so far, in order
BulkCalls == SelectSeq(calls, IsBulk)

\* the destination or the transport failed some call
TransportFailed == \E k \in 1..Len(calls) : calls[k].err = "TransportError"

\* the destination rejected some document of some submitted chunk
SomeRejected ==
    \E k \in 1..Len(calls) : \E i \in 1..Len(calls[k].oks) : ~calls[k].oks[i]

Ceil(a, b) == (a + b - 1) \div b

Smaller(a, b) == IF a < b THEN a ELSE b

\* a csv data row whose number of cells differs from the header's
HasRaggedRow ==
    /\ es_dataset.ext = "csv"
    /\ \E i \in 1..N :
          Len(csv_reader(DataLines(es_dataset)[i]))
            # Len(csv_reader(Head(es_dataset.input_file)))

-----------------------------------------------------------------------------
(* C1: for every valid input of N records, N >= 0, a run that no fatal
   destination error aborts returns normally, and returns N.  The code
   does not: after a loop of no iteration cnt is unbound and return cnt+1
   raises UnboundLocalError. *)
C1_ProcessedEqualsN ==
    (Done /\ AllLinesValid /\ ~TransportFailed /\ ~SomeRejected)
        => (pc = "returned" /\ ret = N)

(* C2: when the destination rejects documents of a chunk and no transport
   failure occurs, the run does not abort: every document's outcome is
   consumed, all N are counted and the count is returned.  The code does
   not: the helper raises BulkIndexError at the end of the chunk. *)
C2_PartialFailureContinues ==
    (Done /\ AllLinesValid /\ SomeRejected /\ ~TransportFailed)
        => (pc = "returned" /\ ret = N /\ NextCnt(cnt) = N)

(* C3: the record at 0-based position i that has the configured identity
   field with value v is prepared with identity v, any other record with
   identity i + es_index_start_from; every prepared document carries the
   configured index name. *)
C3_IdentityResolution ==
    \A i \in 1..Len(prepared) :
        LET row == RowOf(es_dataset, i)
            doc == prepared[i]
        IN  /\ doc["_index"] = PyStr(es_dataset.es_index_name)
            /\ IF es_dataset.es_id_field \in DOMAIN row
               THEN doc["_id"] = row[es_dataset.es_id_field]
               ELSE doc["_id"] = PyInt((i - 1) + es_dataset.es_index_start_from)

\* two records prepared, the second given a generated identity from an
\* offset other than the default, the first its own field's value
C3_Witness ==
    /\ Len(prepared) >= 2
    /\ es_dataset.es_index_start_from # DefaultStartFrom
    /\ es_dataset.es_id_field \in DOMAIN RowOf(es_dataset, 1)
    /\ es_dataset.es_id_field \notin DOMAIN RowOf(es_dataset, 2)
    /\ prepared[1]["_id"] = PyStr("a")
    /\ prepared[2]["_id"] = PyInt(1 + es_dataset.es_index_start_from)

(* C4: the bulk submissions are the consecutive chunks of the documents in
   file order: the j-th holds documents (j-1)c+1 .. jc, only the last may
   hold fewer, and once the input is exhausted and every chunk is through
   there are exactly ceil(N/c) of them, covering the N documents once. *)
C4_Batching ==
    LET B == BulkCalls
        c == chunk_size
    IN  /\ \A j \in 1..Len(B) :
              /\ B[j].docs = SubSeq(prepared, (j - 1) * c + 1,
                                     Smaller(j * c, Len(prepared)))
              /\ Len(B[j].docs) >= 1
              /\ j < Len(B) => Len(B[j].docs) = c
        /\ pc \in {"refresh", "returned"} =>
              /\ Len(prepared) = N
              /\ Len(B) = Ceil(N, c)
              /\ N > 0 => Len(B[Len(B)].docs) = N - c * (Ceil(N, c) - 1)

\* a run that returned after a full chunk and a last chunk of one document
C4_Witness ==
    /\ pc = "returned"
    /\ N = chunk_size + 1
    /\ chunk_size > 1
    /\ Len(BulkCalls) = 2
    /\ Len(BulkCalls[1].docs) = chunk_size
    /\ Len(BulkCalls[2].docs) = 1

(* C5, as claimed: a CSV file with a data row whose column count differs
   from the header's makes the run fail; no count is returned *)
C5_RaggedRowFails ==
    HasRaggedRow => pc # "returned"

(* C5, amended: the content that fails a run is an ndjson line that is not
   JSON: the run raises ElasticDataloaderException when the generator
   reaches the line and returns no count.  A CSV row of another length
   than the header is not an error: its missing fields are None, its
   surplus cells are filed under the None key, it is prepared like any
   other row and a run over such a file that returns, returns N. *)
C5_MalformedContent ==
    LET lines == DataLines(es_dataset)
    IN  /\ (es_dataset.ext = "json" /\ ~AllLinesValid) => pc # "returned"
        /\ exc.from = "JSONDecodeError" =>
              /\ pc = "raised"
              /\ exc.type = "ElasticDataloaderException"
              /\ ret = UNBOUND
              /\ ~json_valid(lines[pos + 1])
              /\ \A i \in 1..pos : json_valid(lines[i])
        /\ exc.from # "csv.Error"
        /\ es_dataset.ext = "csv" =>
              \A i \in 1..Len(prepared) :
                  LET cells == csv_reader(lines[i])
                      lf == Len(csv_reader(Head(es_dataset.input_file)))
                  IN  /\ Len(cells) < lf => prepared[i]["name"] = PyNone
                      /\ Len(cells) > lf =>
                            prepared[i][RestKey]
                               = PyList(SubSeq(cells, lf + 1, Len(cells)))
        /\ (HasRaggedRow /\ pc = "returned") => ret = N

\* a run over a csv file with a short and a long row that returned its count
C5_Witness ==
    /\ es_dataset.ext = "csv"
    /\ N >= 2
    /\ DataLines(es_dataset)[1] = "a"
    /\ DataLines(es_dataset)[2] = "a,x,y"
    /\ pc = "returned"
    /\ ret = N

(* C6: whenever control has left load_dataset, by return or by exception,
   the input file the generator opened is closed.  It is not when the
   exception was raised while the generator was suspended at a yield. *)
C6_FileClosedOnExit ==
    Done => ~fileOpen

(* C7: index preparation.  Neither a not-found on deletion nor an
   already-exists on creation leaves as an exception; once preparation
   is over without a destination failure the index exists; with
   delete_index_first the index is gone when the creation is requested;
   a deletion that fails otherwise is the last call of the run, which
   has raised with no document prepared or submitted. *)
C7_PrepareIndex ==
    /\ exc.from \notin {"NotFoundError", "RequestError"}
    /\ \A k \in 1..Len(calls) :
          /\ (calls[k].op = "delete" /\ calls[k].err # "TransportError")
                => (pc = "create" \/ (Len(calls) > k /\ calls[k + 1].op = "create"))
          /\ (calls[k].op = "create" /\ calls[k].err # "TransportError")
                => (indexExists /\ ~(pc = "raised" /\ exc.from = "TransportError"
                                       /\ k = Len(calls)))
          /\ (calls[k].op = "delete" /\ calls[k].err = "TransportError")
                => (k = Len(calls) /\ pc = "raised" /\ prepared = <<>>
                     /\ BulkCalls = <<>>)
          /\ calls[k].op = "create" =>
                (k = (IF es_dataset.delete_index_first THEN 2 ELSE 1))
    /\ (pc = "create" /\ es_dataset.delete_index_first) => ~indexExists
    /\ pc \in {"pull", "bulk", "respond", "refresh", "returned"} =>
          (indexExists /\ \E k \in 1..Len(calls) : calls[k].op = "create")

\* deletion of an index that was not there, then its creation
C7_Witness ==
    /\ pc = "pull"
    /\ indexExists
    /\ Len(calls) = 2
    /\ calls[1].op = "delete" /\ calls[1].err = "NotFoundError"
    /\ calls[2].op = "create" /\ calls[2].err = "none"

(* C8: a refresh is requested only once the loop has consumed the outcome
   of every document of every chunk, after the index was prepared, and it
   is the last call; a run that returned made exactly one; a run that
   raised for anything but the refresh itself or the return made none,
   and once an exception has left no further call can be made. *)
C8_LifecycleOrdering ==
    /\ \A k \in 1..Len(calls) :
          IsRefresh(calls[k]) =>
              /\ k = Len(calls)
              /\ NextCnt(cnt) = N
              /\ pos = N
              /\ Len(BulkCalls) = Ceil(N, chunk_size)
              /\ \E j \in 1..(k - 1) : calls[j].op = "create"
              /\ pc \in {"returned", "raised"}
    /\ pc = "returned" =>
          /\ Len(SelectSeq(calls, IsRefresh)) = 1
          /\ calls[Len(calls)].err = "none"
          /\ ret = N
    /\ pc = "raised" =>
          /\ ~ENABLED NextDocument
          /\ ~ENABLED Bulk
          /\ ~ENABLED RefreshAndReturn
          /\ exc.from \in {"JSONDecodeError", "csv.Error", "BulkIndexError"}
                => SelectSeq(calls, IsRefresh) = <<>>
          /\ (exc.from = "TransportError" /\ ~IsRefresh(calls[Len(calls)]))
                => SelectSeq(calls, IsRefresh) = <<>>

\* a run of two chunks that returned, its refresh the last of four calls
C8_Witness ==
    /\ pc = "returned"
    /\ Len(BulkCalls) = 2
    /\ Len(calls) = 4
    /\ IsRefresh(calls[4])

(* C9: whenever load_dataset returns a count the failure buffer is empty:
   every failure appended to it was flushed to the logger.  The code
   does not flush after the loop: failures of the documents after the
   last checkpoint are still in not_ok, unlogged, at the return. *)
C9_NoFailureDropped ==
    pc = "returned" => not_ok = <<>>

(* C10, as claimed: the failure buffer never holds more than 10 entries *)
C10_BufferAtMostTen ==
    Len(not_ok) <= LogLimit

(* C10, amended: the buffer is not capped.  It is emptied at a checkpoint
   only, so between iterations it holds fewer than chunk_size entries;
   what is capped at 10 entries is each list given to the error log. *)
C10_LogSliceAtMostTen ==
    /\ Len(not_ok) < chunk_size
    /\ \A m \in 1..Len(nok_log) :
          /\ Len(nok_log[m].noks) >= 1
          /\ Len(nok_log[m].noks) <= LogLimit

\* an eleventh failure has arrived and all eleven are retained
C10_Witness ==
    Len(not_ok) = LogLimit + 1

====
